---- MODULE Spec2Model ----
(***************************************************************************)
(* The performance tracker of src/performance.py: PerformanceMonitor keeps *)
(* one history of PerformanceMetrics samples per model name, one global    *)
(* alert log and one threshold table.  track_performance appends the       *)
(* sample, evaluates it against the table (_check_thresholds), extends the *)
(* alert log and classifies the trend of the two newest samples            *)
(* (_calculate_trends).  MetricsCollector.collect_metrics builds a sample   *)
(* for a ModelInfo from fixed tables, from what the system answers and     *)
(* from random draws.                                                      *)
(*                                                                         *)
(* Metric values and thresholds are integers.  The code's floating-point   *)
(* comparison  value > threshold * 1.5  is computed exactly as             *)
(* 2 * value > 3 * threshold  (both sides are exact in binary floating     *)
(* point for the magnitudes used here).                                    *)
(***************************************************************************)
EXTENDS Integers, Sequences, FiniteSets, TLC

VARIABLES
    performance_history,  \* self.performance_history: model name -> Seq(sample)
    alerts,               \* self.alerts: the global alert log
    thresholds,           \* self.thresholds: threshold key -> limit
    result,               \* the value returned by the most recent call
    last_call,            \* history variable: the most recent method call and its arguments
    calls,                \* history variable: the track_performance calls so far
    heap,                 \* the objects by identity: heap[id] is the object id
    self_refs,            \* the references the monitor's attributes hold
    caller_refs,          \* the references a caller holds
    collection_history,   \* MetricsCollector.collection_history
    collected,            \* history variable: the most recent collect_metrics call
    threads,              \* the track_performance call each thread is in: its position and locals
    appended,             \* history variable: the threads in the order of their appends
    models,               \* ModelManager.models: the (model id, model) items in insertion order
    model_groups,         \* ModelManager.model_groups: group name -> Seq(model id)
    manager_call,         \* history variable: the most recent ModelManager call and what it returned
    manager_calls         \* history variable: the number of add_model and remove_model calls

\* The monitor with objects as values, the monitor with objects as
\* references into the heap, the collector, the threads inside
\* track_performance, and the model manager.
monitorVars == <<performance_history, alerts, thresholds, result, last_call, calls>>
aliasVars == <<heap, self_refs, caller_refs>>
collectorVars == <<collection_history, collected>>
threadVars == <<threads, appended>>
managerVars == <<models, model_groups, manager_call, manager_calls>>
nonMonitorVars == <<aliasVars, collectorVars, threadVars, managerVars>>
nonAliasVars == <<monitorVars, collectorVars, threadVars, managerVars>>
nonCollectorVars == <<monitorVars, aliasVars, threadVars, managerVars>>
nonManagerVars == <<monitorVars, aliasVars, collectorVars, threadVars>>

vars == <<monitorVars, aliasVars, collectorVars, threadVars, managerVars>>

----------------------------------------------------------------------------
(* Bounds and input sets *)

\* Number of track_performance calls explored by Spec and by SpecTrend.
MaxTracks == 3
MaxTrendTracks == 2

ModelNames == {"bert", "gpt2"}

ThresholdKeys ==
    {"max_memory_mb", "max_cpu_percent", "max_inference_time_ms",
     "min_throughput_tokens_per_sec", "max_error_rate"}

\* self.thresholds as __init__ sets it.
DefaultThresholds ==
    [max_memory_mb |-> 2048,
     max_cpu_percent |-> 80,
     max_inference_time_ms |-> 1000,
     min_throughput_tokens_per_sec |-> 50,
     max_error_rate |-> 10]

----------------------------------------------------------------------------
(* Optional values and strings read character by character *)

\* An Optional value is None or Some(value).
None == <<>>
Some(value) == <<value>>

\* Python's truth value of an Optional number: None and 0 are false.
Truthy(optional) == optional # None /\ optional[1] # 0

\* `table.get(key, default)`
Get(table, key, default) == IF key \in DOMAIN table THEN table[key] ELSE default

----------------------------------------------------------------------------
(* PerformanceMetrics *)

MetricsKeys ==
    {"model_name", "timestamp", "memory_usage_mb", "cpu_usage_percent",
     "inference_time_ms", "throughput_tokens_per_sec", "model_size_mb",
     "gpu_usage_percent", "error_rate", "status"}

\* PerformanceMetrics.to_dict: the dictionary built key by key from the fields.
to_dict(self) ==
    [model_name |-> self.model_name,
     timestamp |-> self.timestamp,
     memory_usage_mb |-> self.memory_usage_mb,
     cpu_usage_percent |-> self.cpu_usage_percent,
     inference_time_ms |-> self.inference_time_ms,
     throughput_tokens_per_sec |-> self.throughput_tokens_per_sec,
     model_size_mb |-> self.model_size_mb,
     gpu_usage_percent |-> self.gpu_usage_percent,
     error_rate |-> self.error_rate,
     status |-> self.status]

----------------------------------------------------------------------------
(* PerformanceMonitor._check_thresholds *)

\* A variant that checks the cpu limit before the memory limit.
checksCpuFirst(metrics) ==
    << <<"cpu_usage_percent", metrics.cpu_usage_percent, "max_cpu_percent">>,
       <<"memory_usage_mb", metrics.memory_usage_mb, "max_memory_mb">>,
       <<"inference_time_ms", metrics.inference_time_ms, "max_inference_time_ms">>,
       <<"error_rate", metrics.error_rate, "max_error_rate">> >>

\* The list `checks`: (metric name, value, threshold key), in the code's order.
checks(metrics) ==
    << <<"memory_usage_mb", metrics.memory_usage_mb, "max_memory_mb">>,
       <<"cpu_usage_percent", metrics.cpu_usage_percent, "max_cpu_percent">>,
       <<"inference_time_ms", metrics.inference_time_ms, "max_inference_time_ms">>,
       <<"error_rate", metrics.error_rate, "max_error_rate">> >>

\* A variant that takes every value the table holds, 0 included, as a limit.
HasThresholdKey(table, key) == key \in DOMAIN table

\* `threshold = table.get(key)` followed by `if threshold and ...`: the key is
\* present and its value is truthy (None and 0 are falsy).
HasThreshold(table, key) == key \in DOMAIN table /\ table[key] # 0

\* `threshold and value > threshold`
Exceeds(table, key, value) == HasThreshold(table, key) /\ value > table[key]

\* A variant that is high from 1.5 times the threshold on.
SeverityFromBound(value, threshold) ==
    IF 2 * value >= 3 * threshold THEN "high" ELSE "medium"

\* A variant that is high only above twice the threshold.
SeverityAboveTwice(value, threshold) ==
    IF value > 2 * threshold THEN "high" ELSE "medium"

\* `"high" if value > threshold * 1.5 else "medium"`
Severity(value, threshold) ==
    IF 2 * value > 3 * threshold THEN "high" ELSE "medium"

ThresholdAlert(metric_name, value, threshold, metrics) ==
    [type |-> "threshold_exceeded",
     metric |-> metric_name,
     value |-> value,
     threshold |-> threshold,
     model |-> metrics.model_name,
     timestamp |-> metrics.timestamp,
     severity |-> Severity(value, threshold)]

\* A variant that also flags a throughput equal to the minimum.
BelowOrAtMinimum(table, value) ==
    /\ HasThreshold(table, "min_throughput_tokens_per_sec")
    /\ value <= table["min_throughput_tokens_per_sec"]

\* `min_throughput and metrics.throughput_tokens_per_sec < min_throughput`
BelowMinimum(table, value) ==
    /\ HasThreshold(table, "min_throughput_tokens_per_sec")
    /\ value < table["min_throughput_tokens_per_sec"]

ThroughputAlert(min_throughput, metrics) ==
    [type |-> "throughput_low",
     metric |-> "throughput_tokens_per_sec",
     value |-> metrics.throughput_tokens_per_sec,
     threshold |-> min_throughput,
     model |-> metrics.model_name,
     timestamp |-> metrics.timestamp,
     severity |-> "medium"]

\* The for loop over `checks`: the alerts after the first i checks.
RECURSIVE CheckLoop(_, _, _)
CheckLoop(table, metrics, i) ==
    IF i = 0 THEN <<>>
    ELSE LET c == checks(metrics)[i]
             before == CheckLoop(table, metrics, i - 1)
         IN  IF Exceeds(table, c[3], c[2])
             THEN Append(before, ThresholdAlert(c[1], c[2], table[c[3]], metrics))
             ELSE before

\* A variant that evaluates against the table of __init__, whatever the
\* current table is.
_check_thresholds_initial(table, metrics) ==
    LET found == CheckLoop(DefaultThresholds, metrics, Len(checks(metrics)))
    IN  IF BelowMinimum(DefaultThresholds, metrics.throughput_tokens_per_sec)
        THEN Append(found,
                    ThroughputAlert(
                        DefaultThresholds["min_throughput_tokens_per_sec"], metrics))
        ELSE found

_check_thresholds(table, metrics) ==
    LET found == CheckLoop(table, metrics, Len(checks(metrics)))
    IN  IF BelowMinimum(table, metrics.throughput_tokens_per_sec)
        THEN Append(found,
                    ThroughputAlert(table["min_throughput_tokens_per_sec"], metrics))
        ELSE found

----------------------------------------------------------------------------
(* PerformanceMonitor._calculate_trends *)

\* A variant that counts a change of exactly 10 as a change.
MemoryTrendFromBound(memory_change) ==
    IF memory_change >= 10 THEN "increasing"
    ELSE IF memory_change <= -10 THEN "decreasing"
    ELSE "stable"

MemoryTrend(memory_change) ==
    IF memory_change > 10 THEN "increasing"
    ELSE IF memory_change < -10 THEN "decreasing"
    ELSE "stable"

CpuTrend(cpu_change) ==
    IF cpu_change > 5 THEN "increasing"
    ELSE IF cpu_change < -5 THEN "decreasing"
    ELSE "stable"

\* A variant that reads a rise in inference time as an improvement.
PerformanceTrendInverted(time_change) ==
    IF time_change > 50 THEN "improving"
    ELSE IF time_change < -50 THEN "degrading"
    ELSE "stable"

PerformanceTrend(time_change) ==
    IF time_change > 50 THEN "degrading"
    ELSE IF time_change < -50 THEN "improving"
    ELSE "stable"

\* `self.performance_history.get(model_name, [])`
HistoryOf(histories, model_name) ==
    IF model_name \in DOMAIN histories THEN histories[model_name] ELSE <<>>

\* A variant that asks for three samples.
InsufficientDataBelowThree(history) == Len(history) < 3

\* `len(history) < 2`
InsufficientData(history) == Len(history) < 2

\* A variant that compares with the oldest sample of the history.
PreviousIsFirst(history) == history[1]

\* `previous = history[-2]`
Previous(history) == history[Len(history) - 1]

_calculate_trends(histories, model_name) ==
    LET history == HistoryOf(histories, model_name)
    IN  IF InsufficientData(history)
        THEN [trend |-> "insufficient_data"]
        ELSE LET recent == history[Len(history)]
                 previous == Previous(history)
             IN  [memory |-> MemoryTrend(recent.memory_usage_mb
                                         - previous.memory_usage_mb),
                  cpu |-> CpuTrend(recent.cpu_usage_percent
                                   - previous.cpu_usage_percent),
                  performance |-> PerformanceTrend(recent.inference_time_ms
                                                   - previous.inference_time_ms)]

----------------------------------------------------------------------------
(* PerformanceMonitor.track_performance *)

\* A variant that inserts the new sample at the front of the history.
StoreMetricsAtFront(histories, model_name, metrics) ==
    LET created == IF model_name \in DOMAIN histories
                   THEN histories
                   ELSE histories @@ (model_name :> <<>>)
    IN  [created EXCEPT ![model_name] = <<metrics>> \o @]

\* A variant that keeps only the history of the model just tracked.
StoreMetricsAlone(histories, model_name, metrics) ==
    (model_name :> Append(HistoryOf(histories, model_name), metrics))

\* `if model_name not in self.performance_history: ... = []` and the append.
StoreMetrics(histories, model_name, metrics) ==
    LET created == IF model_name \in DOMAIN histories
                   THEN histories
                   ELSE histories @@ (model_name :> <<>>)
    IN  [created EXCEPT ![model_name] = Append(@, metrics)]

\* A variant that drops an alert equal to one already logged.
ExtendAlertsOnce(log, new_alerts) ==
    LET Fresh(a) == \A i \in 1..Len(log) : log[i] # a
    IN  log \o SelectSeq(new_alerts, Fresh)

\* `self.alerts.extend(alerts)`
ExtendAlerts(log, new_alerts) == log \o new_alerts

\* A variant that returns the whole alert log.
TrackingResultWithLog(model_name, metrics, new_alerts, trends) ==
    [model_name |-> model_name,
     current_metrics |-> to_dict(metrics),
     alerts |-> alerts \o new_alerts,
     trends |-> trends,
     status |-> metrics.status]

\* The dictionary track_performance returns.
TrackingResult(model_name, metrics, new_alerts, trends) ==
    [model_name |-> model_name,
     current_metrics |-> to_dict(metrics),
     alerts |-> new_alerts,
     trends |-> trends,
     status |-> metrics.status]

track_performance(model_name, metrics) ==
    LET stored == StoreMetrics(performance_history, model_name, metrics)
        new_alerts == _check_thresholds(thresholds, metrics)
        trends == _calculate_trends(stored, model_name)
        returned == TrackingResult(model_name, metrics, new_alerts, trends)
    IN  /\ performance_history' = stored
        /\ alerts' = ExtendAlerts(alerts, new_alerts)
        /\ result' = returned
        /\ last_call' = [op |-> "track_performance",
                         model_name |-> model_name,
                         metrics |-> metrics,
                         thresholds |-> thresholds,
                         alerts_before |-> Len(alerts)]
        /\ calls' = Append(calls, [model_name |-> model_name,
                                   metrics |-> metrics,
                                   thresholds |-> thresholds,
                                   alerts |-> returned.alerts])
        /\ UNCHANGED thresholds

\* The threshold table is a public attribute: a collaborator replaces it whole.
ReplaceThresholds(table) ==
    /\ table # thresholds
    /\ thresholds' = table
    /\ UNCHANGED <<performance_history, alerts, result, last_call, calls>>

----------------------------------------------------------------------------
(* track_performance statement by statement, for calls that run at the same *)
(* time: no statement of it takes a lock                                    *)

Threads == {1, 2}

\* The call is made: the arguments become locals.
Call(t, model_name, metrics) ==
    /\ threads[t].pc = "idle"
    /\ threads' = [threads EXCEPT ![t] =
            [pc |-> "membership", model_name |-> model_name, metrics |-> metrics]]
    /\ UNCHANGED <<monitorVars, appended>>

\* `if model_name not in self.performance_history:`
Membership(t) ==
    /\ threads[t].pc = "membership"
    /\ threads' = [threads EXCEPT ![t].pc =
            IF threads[t].model_name \notin DOMAIN performance_history
            THEN "create" ELSE "append"]
    /\ UNCHANGED <<monitorVars, appended>>

\* `self.performance_history[model_name] = []`
Create(t) ==
    /\ threads[t].pc = "create"
    /\ performance_history' =
            IF threads[t].model_name \in DOMAIN performance_history
            THEN [performance_history EXCEPT ![threads[t].model_name] = <<>>]
            ELSE performance_history @@ (threads[t].model_name :> <<>>)
    /\ threads' = [threads EXCEPT ![t].pc = "append"]
    /\ UNCHANGED <<alerts, thresholds, result, last_call, calls, appended>>

\* A variant of the append that extends the alert log in the same step.
LogAfterAppendExtended(log, table, metrics) ==
    ExtendAlerts(log, _check_thresholds(table, metrics))

\* `self.performance_history[model_name].append(metrics)` leaves the alert log
\* as it is.
LogAfterAppend(log, table, metrics) == log

AppendSample(t) ==
    /\ threads[t].pc = "append"
    /\ performance_history' =
            [performance_history EXCEPT ![threads[t].model_name] =
                Append(@, threads[t].metrics)]
    /\ alerts' = LogAfterAppend(alerts, thresholds, threads[t].metrics)
    /\ appended' = Append(appended, t)
    /\ threads' = [threads EXCEPT ![t].pc = "check"]
    /\ UNCHANGED <<thresholds, result, last_call, calls>>

\* `alerts = self._check_thresholds(metrics)`
Check(t) ==
    /\ threads[t].pc = "check"
    /\ threads' = [threads EXCEPT ![t] =
            [pc |-> "extend", model_name |-> @.model_name, metrics |-> @.metrics,
             alerts |-> _check_thresholds(thresholds, @.metrics)]]
    /\ UNCHANGED <<monitorVars, appended>>

\* `self.alerts.extend(alerts)`
Extend(t) ==
    /\ threads[t].pc = "extend"
    /\ alerts' = ExtendAlerts(alerts, threads[t].alerts)
    /\ threads' = [threads EXCEPT ![t].pc = "trends"]
    /\ UNCHANGED <<performance_history, thresholds, result, last_call, calls, appended>>

\* `trends = self._calculate_trends(model_name)` and the return.
Return(t) ==
    /\ threads[t].pc = "trends"
    /\ threads' = [threads EXCEPT ![t] =
            [pc |-> "done", model_name |-> @.model_name, metrics |-> @.metrics,
             alerts |-> @.alerts,
             result |-> TrackingResult(@.model_name, @.metrics, @.alerts,
                            _calculate_trends(performance_history, @.model_name))]]
    /\ UNCHANGED <<monitorVars, appended>>

----------------------------------------------------------------------------
(* PerformanceMonitor.get_model_summary *)

\* A variant that creates an empty history for an unknown name, as
\* setdefault would.
HistoriesAfterSetDefault(histories, model_name) ==
    IF model_name \in DOMAIN histories
    THEN histories
    ELSE histories @@ (model_name :> <<>>)

\* `self.performance_history.get(model_name, [])` reads the dictionary and
\* leaves it as it is.
HistoriesAfterGet(histories, model_name) == histories

\* `sum(m.<field> for m in history)`: the sum over the first i samples.
RECURSIVE SumOf(_, _, _)
SumOf(history, field, i) ==
    IF i = 0 THEN 0 ELSE SumOf(history, field, i - 1) + history[i][field]

RECURSIVE GCD(_, _)
GCD(a, b) == IF b = 0 THEN a ELSE GCD(b, a % b)

\* A variant that divides with floor division.
AverageFloor(total, count) == [num |-> total \div count, den |-> 1]

\* `total / len(history)`: true division.  The quotient is kept exactly, as
\* the fraction num/den in lowest terms.
Average(total, count) ==
    [num |-> total \div GCD(total, count), den |-> count \div GCD(total, count)]

\* `[a for a in self.alerts if a.get("model") == model_name]`
ModelAlerts(log, model_name) ==
    LET OfModel(a) == a.model = model_name
    IN  SelectSeq(log, OfModel)

\* The dictionary get_model_summary returns for a non-empty history.
Summary(model_name, history, log) ==
    LET latest == history[Len(history)]
        n == Len(history)
    IN  [model_name |-> model_name,
         latest_metrics |-> to_dict(latest),
         averages |->
             [memory_usage_mb |-> Average(SumOf(history, "memory_usage_mb", n), n),
              cpu_usage_percent |-> Average(SumOf(history, "cpu_usage_percent", n), n),
              inference_time_ms |-> Average(SumOf(history, "inference_time_ms", n), n),
              throughput_tokens_per_sec |->
                  Average(SumOf(history, "throughput_tokens_per_sec", n), n)],
         metrics_count |-> n,
         alerts_count |-> Len(ModelAlerts(log, model_name)),
         status |-> latest.status]

get_model_summary(model_name) ==
    LET history == HistoryOf(performance_history, model_name)
    IN  /\ result' = IF Len(history) = 0
                     THEN [error |-> "No performance data available"]
                     ELSE Summary(model_name, history, alerts)
        /\ performance_history' = HistoriesAfterGet(performance_history, model_name)
        /\ last_call' = [op |-> "get_model_summary", model_name |-> model_name]
        /\ UNCHANGED <<alerts, thresholds, calls>>

----------------------------------------------------------------------------
(* ModelInfo *)

\* A model name is a sequence of characters.
UpperCase ==
    [c \in {"G", "P", "T"} |-> CASE c = "G" -> "g" [] c = "P" -> "p" [] c = "T" -> "t"]

\* str.lower()
Lower(text) == [i \in 1..Len(text) |-> Get(UpperCase, text[i], text[i])]

\* str.strip()
RECURSIVE StripLeft(_)
StripLeft(text) ==
    IF text # <<>> /\ Head(text) = " " THEN StripLeft(Tail(text)) ELSE text

RECURSIVE StripRight(_)
StripRight(text) ==
    IF text # <<>> /\ text[Len(text)] = " "
    THEN StripRight(SubSeq(text, 1, Len(text) - 1))
    ELSE text

Strip(text) == StripRight(StripLeft(text))

\* ModelInfo(name, task_type, ..., size_mb) after __post_init__: the name is
\* lower-cased and stripped.  The task type is given as __post_init__ leaves
\* it, lower-case with hyphens.
ModelInfo(name, task_type, size_mb) ==
    [name |-> Strip(Lower(name)), task_type |-> task_type, size_mb |-> size_mb]

----------------------------------------------------------------------------
(* ModelManager *)

\* ModelInfo.get_model_id: f"{self.name}_{self.task_type}_{self.library}"
get_model_id(model) ==
    model.name \o "_" \o model.task_type \o "_" \o model.library

\* `model_id in self.models`: the keys of the dict.
ModelIds(items) == {items[i].id : i \in 1..Len(items)}

\* self.model_groups[group].append(model_id), after the group is created
\* with an empty list when it is not there yet.
AppendToGroup(groups, group, model_id) ==
    IF group \in DOMAIN groups
    THEN [groups EXCEPT ![group] = Append(@, model_id)]
    ELSE [g \in DOMAIN groups \cup {group} |->
              IF g = group THEN <<model_id>> ELSE groups[g]]

\* ModelManager._update_groups: the model id is appended to the group of the
\* model's task type and then to the group of its library.
_update_groups(groups, model) ==
    LET task_group == "task_" \o model.task_type
        lib_group == "library_" \o model.library
    IN  AppendToGroup(AppendToGroup(groups, task_group, get_model_id(model)),
                      lib_group, get_model_id(model))

\* ModelManager._cleanup_groups: the groups whose list is empty or names no
\* model that is held are deleted; every other group is left as it is.
_cleanup_groups(groups, items) ==
    LET empty_groups ==
            {group \in DOMAIN groups :
                 \/ groups[group] = <<>>
                 \/ ~\E i \in 1..Len(groups[group]) :
                        groups[group][i] \in ModelIds(items)}
    IN  [group \in DOMAIN groups \ empty_groups |-> groups[group]]

\* The positions of the items whose model has the name, in iteration order.
Named(items, model_name) ==
    {i \in 1..Len(items) : items[i].model.name = model_name}

\* The first position of a non-empty set of positions.
First(positions) == CHOOSE i \in positions : \A j \in positions : i <= j

\* `del self.models[model_id]`: the item leaves, the others keep their order.
Delete(items, i) == SubSeq(items, 1, i - 1) \o SubSeq(items, i + 1, Len(items))

\* ModelManager.get_model: the first model of the dict with the name, or None.
get_model(items, model_name) ==
    IF Named(items, model_name) = {}
    THEN None
    ELSE Some(items[First(Named(items, model_name))].model)

\* ModelManager.add_model
add_model(model) ==
    /\ manager_calls' = manager_calls + 1
    /\ IF get_model_id(model) \in ModelIds(models)
       THEN /\ manager_call' = [op |-> "add_model", model |-> model, returned |-> FALSE]
            /\ UNCHANGED <<models, model_groups>>
       ELSE /\ models' = Append(models, [id |-> get_model_id(model), model |-> model])
            /\ model_groups' = _update_groups(model_groups, model)
            /\ manager_call' = [op |-> "add_model", model |-> model, returned |-> TRUE]

\* ModelManager.remove_model: the loop stops at the first model with the
\* name; that one item is deleted and the groups are cleaned up.
remove_model(model_name) ==
    /\ manager_calls' = manager_calls + 1
    /\ IF Named(models, model_name) = {}
       THEN /\ manager_call' =
                   [op |-> "remove_model", model_name |-> model_name, returned |-> FALSE]
            /\ UNCHANGED <<models, model_groups>>
       ELSE /\ models' = Delete(models, First(Named(models, model_name)))
            /\ model_groups' = _cleanup_groups(model_groups, models')
            /\ manager_call' =
                   [op |-> "remove_model", model_name |-> model_name, returned |-> TRUE]

\* A caller's get_model(model_name): nothing of the manager changes.
GetModelCall(model_name) ==
    /\ manager_call' = [op |-> "get_model", model_name |-> model_name,
                        returned |-> get_model(models, model_name)]
    /\ UNCHANGED <<models, model_groups, manager_calls>>

\* ModelManager.__init__
InitManager ==
    /\ models = <<>>
    /\ model_groups = <<>>
    /\ manager_call = [op |-> "__init__"]
    /\ manager_calls = 0

----------------------------------------------------------------------------
(* Exact fractions for the floating-point products of the collector *)

Rational(num, den) ==
    [num |-> num \div GCD(num, den), den |-> den \div GCD(num, den)]

Whole(n) == Rational(n, 1)

Plus(a, b) == Rational(a.num * b.den + b.num * a.den, a.den * b.den)

Times(a, b) == Rational(a.num * b.num, a.den * b.den)

----------------------------------------------------------------------------
(* MetricsCollector *)

\* _get_memory_usage: the resident set size in bytes divided twice by 1024,
\* or 512.0 when psutil raises (reading = None).  The readings are whole
\* numbers of MB, for which the division is exact.
_get_memory_usage(reading) ==
    IF reading = None THEN 512 ELSE (reading[1] \div 1024) \div 1024

\* _get_cpu_usage: psutil's percentage, or 25.0 when psutil raises.
_get_cpu_usage(reading) == IF reading = None THEN 25 ELSE reading[1]

\* _get_gpu_usage: a uniform draw when the coin says there is a GPU.
_get_gpu_usage(has_gpu, draw) == IF has_gpu THEN Some(draw) ELSE None

task_multipliers ==
    [t \in {"text-generation", "text-classification", "question-answering",
            "summarization", "translation"} |->
        CASE t = "text-generation" -> Rational(20, 10)
          [] t = "text-classification" -> Rational(10, 10)
          [] t = "question-answering" -> Rational(15, 10)
          [] t = "summarization" -> Rational(18, 10)
          [] t = "translation" -> Rational(16, 10)]

task_throughputs ==
    [t \in {"text-generation", "text-classification", "question-answering",
            "summarization", "translation"} |->
        CASE t = "text-generation" -> 80
          [] t = "text-classification" -> 200
          [] t = "question-answering" -> 120
          [] t = "summarization" -> 60
          [] t = "translation" -> 90]

\* A variant that halves the throughput of models above 1000 MB.
_simulate_throughput_by_size(model) ==
    IF Truthy(model.size_mb) /\ model.size_mb[1] > 1000
    THEN Get(task_throughputs, model.task_type, 100) \div 2
    ELSE Get(task_throughputs, model.task_type, 100)

\* _simulate_throughput
_simulate_throughput(model) == Get(task_throughputs, model.task_type, 100)

\* size_estimates, in the order the dictionary lists its patterns.
size_estimates ==
    << [pattern |-> <<"b", "e", "r", "t", "-", "b", "a", "s", "e">>, size |-> 440],
       [pattern |-> <<"b", "e", "r", "t", "-", "l", "a", "r", "g", "e">>, size |-> 1340],
       [pattern |-> <<"g", "p", "t", "2">>, size |-> 548],
       [pattern |-> <<"d", "i", "s", "t", "i", "l", "b", "e", "r", "t">>, size |-> 268],
       [pattern |-> <<"r", "o", "b", "e", "r", "t", "a", "-", "b", "a", "s", "e">>, size |-> 498],
       [pattern |-> <<"t", "5", "-", "s", "m", "a", "l", "l">>, size |-> 242],
       [pattern |-> <<"t", "5", "-", "b", "a", "s", "e">>, size |-> 892] >>

\* `pattern in text`
Contains(pattern, text) ==
    \E i \in 0..(Len(text) - Len(pattern)) :
        SubSeq(text, i + 1, i + Len(pattern)) = pattern

\* The for loop of _estimate_model_size from pattern i on: the first pattern
\* the lower-cased name contains decides, 300.0 when none does.
RECURSIVE EstimateLoop(_, _)
EstimateLoop(name, i) ==
    IF i > Len(size_estimates) THEN 300
    ELSE IF Contains(size_estimates[i].pattern, Lower(name))
         THEN size_estimates[i].size
         ELSE EstimateLoop(name, i + 1)

\* _estimate_model_size
_estimate_model_size(model) == EstimateLoop(model.name, 1)

\* A variant that always reports the estimate.
ReportedSizeEstimated(model) == _estimate_model_size(model)

\* `model.size_mb or self._estimate_model_size(model)`
ReportedSize(model) ==
    IF Truthy(model.size_mb) THEN model.size_mb[1] ELSE _estimate_model_size(model)

\* The body of _simulate_inference_time for a model whose size_mb is size_mb:
\* base_time = 50.0, `base_time *= 1 + size_factor * 0.5` under
\* `if model.size_mb:`, then the task multiplier (1.0 when the task is not
\* listed).
InferenceTime(size_mb, task_type) ==
    LET base_time == Whole(50)
        scaled == IF Truthy(size_mb)
                  THEN LET size_factor == Rational(size_mb[1], 1000)
                       IN  Times(base_time,
                                 Plus(Whole(1), Times(size_factor, Rational(5, 10))))
                  ELSE base_time
        multiplier == Get(task_multipliers, task_type, Rational(10, 10))
    IN  Times(scaled, multiplier)

\* A variant that scales by the reported size, declared or estimated.
_simulate_inference_time_by_reported_size(model) ==
    InferenceTime(Some(ReportedSize(model)), model.task_type)

\* _simulate_inference_time
_simulate_inference_time(model) == InferenceTime(model.size_mb, model.task_type)

\* A variant that spreads the draw over 0 to 100 percent.
_simulate_error_rate_percent(draw) == draw * 20

\* _simulate_error_rate: a uniform draw from 0.0 to 5.0.
_simulate_error_rate(draw) == draw

\* A variant in which the task shift is applied only to models that got no
\* size shift.
StatusWeightsOneShift(model) ==
    IF Truthy(model.size_mb) /\ model.size_mb[1] > 1000
    THEN <<70, 23, 7>>
    ELSE IF model.task_type \in {"text-generation", "summarization"}
         THEN <<75, 19, 6>>
         ELSE <<80, 15, 5>>

\* The weights of _determine_status in hundredths, before they are divided
\* by their sum.
StatusWeights(model) ==
    LET base_weights == <<80, 15, 5>>
        sized == IF Truthy(model.size_mb) /\ model.size_mb[1] > 1000
                 THEN <<base_weights[1] - 10, base_weights[2] + 8, base_weights[3] + 2>>
                 ELSE base_weights
    IN  IF model.task_type \in {"text-generation", "summarization"}
        THEN <<sized[1] - 5, sized[2] + 4, sized[3] + 1>>
        ELSE sized

statuses == <<"healthy", "warning", "degraded">>

\* The selection loop from status i on, `cumulative` being the sum of the
\* weights before i.  random_value is in hundredths;
\* random_value <= cumulative / total is compared as
\* random_value * total <= 100 * cumulative.
RECURSIVE SelectLoop(_, _, _, _)
SelectLoop(weights, random_value, i, cumulative) ==
    LET total == weights[1] + weights[2] + weights[3]
    IN  IF i > Len(weights) THEN statuses[1]
        ELSE IF random_value * total <= 100 * (cumulative + weights[i])
             THEN statuses[i]
             ELSE SelectLoop(weights, random_value, i + 1, cumulative + weights[i])

\* _determine_status
_determine_status(model, random_value) ==
    SelectLoop(StatusWeights(model), random_value, 1, 0)

\* A variant in which _get_memory_usage has no handler, so that a failure of
\* the memory introspection leaves collect_metrics.
SurfacedFromMemory(draws) == IF draws.rss = None THEN {"memory"} ELSE {}

\* The failures that leave collect_metrics as an exception: none, because
\* _get_memory_usage and _get_cpu_usage each catch Exception themselves and
\* collect_metrics calls nothing else that raises.
Surfaced(draws) == {}

\* collect_metrics: builds the sample from the model and from what the
\* system and the random source answer (draws), appends it to
\* collection_history and returns it.  An exception would leave before the
\* append.
collect_metrics(model, draws) ==
    LET metrics ==
            [model_name |-> model.name,
             timestamp |-> draws.now,
             memory_usage_mb |-> _get_memory_usage(draws.rss),
             cpu_usage_percent |-> _get_cpu_usage(draws.cpu_percent),
             inference_time_ms |-> _simulate_inference_time(model),
             throughput_tokens_per_sec |-> _simulate_throughput(model),
             model_size_mb |-> ReportedSize(model),
             gpu_usage_percent |-> _get_gpu_usage(draws.has_gpu, draws.gpu),
             error_rate |-> _simulate_error_rate(draws.error_rate),
             status |-> _determine_status(model, draws.random_value)]
    IN  IF Surfaced(draws) # {}
        THEN /\ collected' = [model |-> model, draws |-> draws, raised |-> TRUE]
             /\ UNCHANGED collection_history
        ELSE /\ collection_history' = Append(collection_history, metrics)
             /\ collected' = [model |-> model, draws |-> draws, raised |-> FALSE,
                              metrics |-> metrics]

----------------------------------------------------------------------------
(* The monitor by reference: which object each attribute and each caller holds *)

\* An object of the heap is a list of references, a PerformanceMetrics
\* instance or a dictionary; a reference is an index into the heap.
ListObject(items) == [kind |-> "list", items |-> items]
MetricsObject(value) == [kind |-> "metrics", value |-> value]
DictObject(value) == [kind |-> "dict", value |-> value]

\* The values of the objects a list object refers to, in order.
Items(h, id) == [i \in 1..Len(h[id].items) |-> h[h[id].items[i]].value]

\* The dictionaries _check_thresholds builds, one new object per alert.
AlertObjects(found) == [i \in 1..Len(found) |-> DictObject(found[i])]

\* track_performance by reference.  The caller's PerformanceMetrics object is
\* appended to the model's list as it is (`.append(metrics)`), the alert
\* dictionaries are referred to by both the list _check_thresholds returns
\* and self.alerts (`self.alerts.extend(alerts)`), `metrics.to_dict()` is a
\* new dictionary, and the result carries the returned list and the new
\* dictionary.
track_performance_by_reference(model_name, metrics) ==
    LET sample == Len(heap) + 1
        heap1 == Append(heap, MetricsObject(metrics))
        known == model_name \in DOMAIN self_refs.performance_history
        history == IF known THEN self_refs.performance_history[model_name]
                   ELSE Len(heap1) + 1
        heap2 == IF known THEN heap1 ELSE Append(heap1, ListObject(<<>>))
        heap3 == [heap2 EXCEPT ![history].items = Append(@, sample)]
        found == _check_thresholds(heap3[self_refs.thresholds].value,
                                   heap3[sample].value)
        first == Len(heap3)
        heap4 == heap3 \o AlertObjects(found)
        returned == Len(heap4) + 1
        heap5 == Append(heap4, ListObject([i \in 1..Len(found) |-> first + i]))
        heap6 == [heap5 EXCEPT ![self_refs.alerts].items = @ \o heap5[returned].items]
        current_metrics == Len(heap6) + 1
        heap7 == Append(heap6, DictObject(to_dict(heap6[sample].value)))
    IN  /\ heap' = heap7
        /\ self_refs' = [self_refs EXCEPT !.performance_history =
                            IF known THEN @ ELSE @ @@ (model_name :> history)]
        /\ caller_refs' = caller_refs \cup {sample, returned, current_metrics}

\* get_system_overview by reference: "monitoring_thresholds" is
\* self.thresholds itself; the counts are new values.
get_system_overview_by_reference ==
    /\ caller_refs' = caller_refs \cup {self_refs.thresholds}
    /\ UNCHANGED <<heap, self_refs>>

\* The objects a caller can reach: those it holds and the elements of the
\* lists it holds.
Reachable ==
    caller_refs \cup
    UNION {{heap[id].items[i] : i \in 1..Len(heap[id].items)} :
           id \in {r \in caller_refs : heap[r].kind = "list"}}

\* What a caller's write makes of an object: list.clear(), and an assignment
\* to one attribute or one key.
Tampered(object) ==
    CASE object.kind = "list" -> ListObject(<<>>)
      [] object.kind = "metrics" -> MetricsObject([object.value EXCEPT !.status = "tampered"])
      [] object.kind = "dict" /\ "status" \in DOMAIN object.value ->
            DictObject([object.value EXCEPT !.status = "tampered"])
      [] object.kind = "dict" /\ "severity" \in DOMAIN object.value ->
            DictObject([object.value EXCEPT !.severity = "tampered"])
      [] OTHER -> DictObject([object.value EXCEPT !.max_memory_mb = 0])

\* A caller writes to an object it can reach.
MutateObject(id) ==
    /\ Tampered(heap[id]) # heap[id]
    /\ heap' = [heap EXCEPT ![id] = Tampered(@)]
    /\ UNCHANGED <<self_refs, caller_refs>>

----------------------------------------------------------------------------
(* PerformanceMonitor.get_system_overview *)

\* A variant that reads the status of the first sample.
FirstStatus(history) == history[1].status

\* `history[-1].status`
CurrentStatus(history) == history[Len(history)].status

\* `status_counts[status] = status_counts.get(status, 0) + 1`
Counted(status_counts, status) ==
    IF status \in DOMAIN status_counts
    THEN [status_counts EXCEPT ![status] = @ + 1]
    ELSE status_counts @@ (status :> 1)

\* The loop over self.performance_history.values() that fills status_counts,
\* run over the histories of `names`.
RECURSIVE StatusCounts(_, _)
StatusCounts(histories, names) ==
    IF names = {} THEN <<>>
    ELSE LET n == CHOOSE x \in names : TRUE
             rest == StatusCounts(histories, names \ {n})
         IN  IF Len(histories[n]) > 0
             THEN Counted(rest, CurrentStatus(histories[n]))
             ELSE rest

\* `sum(len(history) for history in self.performance_history.values())`
RECURSIVE TotalMetrics(_, _)
TotalMetrics(histories, names) ==
    IF names = {} THEN 0
    ELSE LET n == CHOOSE x \in names : TRUE
         IN  Len(histories[n]) + TotalMetrics(histories, names \ {n})

get_system_overview ==
    /\ result' =
           [total_models_monitored |-> Cardinality(DOMAIN performance_history),
            total_metrics_collected |->
                TotalMetrics(performance_history, DOMAIN performance_history),
            total_alerts |-> Len(alerts),
            status_distribution |->
                StatusCounts(performance_history, DOMAIN performance_history),
            monitoring_thresholds |-> thresholds]
        /\ last_call' = [op |-> "get_system_overview"]
        /\ UNCHANGED <<performance_history, alerts, thresholds, calls>>

----------------------------------------------------------------------------
(* The state after construction *)

\* PerformanceMonitor.__init__ by reference: self.alerts is the list object 1,
\* self.thresholds the dictionary object 2, self.performance_history an
\* empty dictionary of list references; no caller holds a reference yet.
InitByReference ==
    /\ heap = << [kind |-> "list", items |-> <<>>],
                 [kind |-> "dict", value |-> DefaultThresholds] >>
    /\ self_refs = [performance_history |-> <<>>, alerts |-> 1, thresholds |-> 2]
    /\ caller_refs = {}

\* PerformanceMonitor.__init__
Init ==
    /\ performance_history = <<>>
    /\ alerts = <<>>
    /\ thresholds = DefaultThresholds
    /\ result = <<>>
    /\ last_call = [op |-> "__init__"]
    /\ calls = <<>>
    /\ InitByReference
    /\ collection_history = <<>>
    /\ collected = None
    /\ threads = [t \in Threads |-> [pc |-> "idle"]]
    /\ appended = <<>>
    /\ InitManager

----------------------------------------------------------------------------
(* Spec: the tracker under any sequence of calls *)

\* A table that also flags 2048 MB, for replacement at run time.
StrictThresholds == [DefaultThresholds EXCEPT !["max_memory_mb"] = 2047]

Tables == {DefaultThresholds, StrictThresholds}

\* Samples a caller passes: below or above the memory limit, any status; the
\* sample's own model_name need not be the name it is tracked under.
Samples ==
    [model_name : ModelNames,
     timestamp : {"t1"},
     memory_usage_mb : {2048, 3073},
     cpu_usage_percent : {25},
     inference_time_ms : {100},
     throughput_tokens_per_sec : {80},
     model_size_mb : {548},
     gpu_usage_percent : {None},
     error_rate : {1},
     status : {"healthy", "degraded"}]

Track ==
    /\ Len(calls) < MaxTracks
    /\ UNCHANGED nonMonitorVars
    /\ \E model_name \in ModelNames, metrics \in Samples :
           track_performance(model_name, metrics)

Replace ==
    /\ \E table \in Tables : ReplaceThresholds(table)
    /\ UNCHANGED nonMonitorVars

Next == Track \/ Replace

Spec == Init /\ [][Next]_vars

----------------------------------------------------------------------------
(* SpecEval: one sample evaluated against one threshold table *)

\* Every table over limits 0, 1 and 2, and every sample whose values lie
\* below, on and above these limits and their 1.5-fold.
EvalTables == [ThresholdKeys -> {0, 1, 2}]

EvalSamples ==
    [model_name : {"bert"},
     timestamp : {"t1"},
     memory_usage_mb : 1..4,
     cpu_usage_percent : 1..4,
     inference_time_ms : 1..4,
     throughput_tokens_per_sec : 0..3,
     model_size_mb : {548},
     gpu_usage_percent : {None},
     error_rate : 1..4,
     status : {"healthy"}]

ReplaceEval ==
    /\ calls = <<>>
    /\ UNCHANGED nonMonitorVars
    /\ \E table \in EvalTables : ReplaceThresholds(table)

TrackEval ==
    /\ calls = <<>>
    /\ UNCHANGED nonMonitorVars
    /\ \E metrics \in EvalSamples : track_performance("bert", metrics)

NextEval == ReplaceEval \/ TrackEval

SpecEval == Init /\ [][NextEval]_vars

----------------------------------------------------------------------------
(* SpecTrend: consecutive samples whose differences lie around the trend bounds *)

TrendSamples ==
    [model_name : {"bert"},
     timestamp : {"t1"},
     memory_usage_mb : {100, 110, 121},
     cpu_usage_percent : {20, 25, 31},
     inference_time_ms : {100, 150, 201},
     throughput_tokens_per_sec : {80},
     model_size_mb : {548},
     gpu_usage_percent : {None},
     error_rate : {1},
     status : {"healthy"}]

TrackTrend ==
    /\ Len(calls) < MaxTrendTracks
    /\ UNCHANGED nonMonitorVars
    /\ \E model_name \in ModelNames, metrics \in TrendSamples :
           track_performance(model_name, metrics)

NextTrend == TrackTrend

SpecTrend == Init /\ [][NextTrend]_vars

----------------------------------------------------------------------------
(* SpecQuery: summaries and overviews between track_performance calls *)

MaxQueryTracks == 3

QueryNames == ModelNames \cup {"t5"}

\* The samples of Samples, each carrying the name it is tracked under, as
\* Main.main passes them.
SamplesOf(model_name) == {[s EXCEPT !.model_name = model_name] : s \in Samples}

TrackQuery ==
    /\ Len(calls) < MaxQueryTracks
    /\ UNCHANGED nonMonitorVars
    /\ \E model_name \in QueryNames :
           \E metrics \in SamplesOf(model_name) :
               track_performance(model_name, metrics)

SummaryQuery ==
    /\ \E model_name \in QueryNames : get_model_summary(model_name)
    /\ UNCHANGED nonMonitorVars

OverviewQuery == get_system_overview /\ UNCHANGED nonMonitorVars

NextQuery == TrackQuery \/ SummaryQuery \/ OverviewQuery

SpecQuery == Init /\ [][NextQuery]_vars

----------------------------------------------------------------------------
(* SpecAlias: callers writing to the objects they passed in or got back *)

MaxAliasTracks == 2

AliasSamples == {s \in Samples : s.status = "healthy"}

\* The PerformanceMetrics objects passed in so far.
SamplesByReference == {id \in 1..Len(heap) : heap[id].kind = "metrics"}

TrackAlias ==
    /\ Cardinality(SamplesByReference) < MaxAliasTracks
    /\ \E metrics \in AliasSamples :
           track_performance_by_reference(metrics.model_name, metrics)
    /\ UNCHANGED nonAliasVars

OverviewAlias == get_system_overview_by_reference /\ UNCHANGED nonAliasVars

CallerWrites ==
    /\ \E id \in Reachable : MutateObject(id)
    /\ UNCHANGED nonAliasVars

NextAlias == TrackAlias \/ OverviewAlias \/ CallerWrites

SpecAlias == Init /\ [][NextAlias]_vars

----------------------------------------------------------------------------
(* SpecSize: one collect_metrics call of a new collector, over model names *)

\* The longest name is made of MaxChunks pieces.
MaxChunks == 3

Chunks ==
    { <<"d", "i", "s", "t", "i", "l">>,
      <<"b", "e", "r", "t">>,
      <<"b", "e", "r", "t", "-", "b", "a", "s", "e">>,
      <<"r", "o", "b", "e", "r", "t", "a">>,
      <<"g", "p", "t", "2">>,
      <<"G", "P", "T", "2">>,
      <<"t", "5">>,
      <<"-", "b", "a", "s", "e">>,
      <<"-", "l", "a", "r", "g", "e">>,
      <<"-", "s", "m", "a", "l", "l">>,
      <<"-", "u", "n", "c", "a", "s", "e", "d">>,
      <<" ">> }

\* The names made of exactly n pieces.
RECURSIVE NamesOf(_)
NamesOf(n) ==
    IF n = 0 THEN {<<>>} ELSE {name \o chunk : name \in NamesOf(n - 1), chunk \in Chunks}

Names == UNION {NamesOf(n) : n \in 1..MaxChunks}

\* What the system and the random source answer when nothing fails.
PlainDraws ==
    [now |-> "t1", rss |-> Some(600 * 1024 * 1024), cpu_percent |-> Some(50),
     has_gpu |-> FALSE, gpu |-> 20, error_rate |-> 1, random_value |-> 0]

CollectSize ==
    /\ collection_history = <<>>
    /\ \E name \in Names, size_mb \in {None, Some(7)} :
           collect_metrics(ModelInfo(name, "text-classification", size_mb), PlainDraws)
    /\ UNCHANGED nonCollectorVars

NextSize == CollectSize

SpecSize == Init /\ [][NextSize]_vars

----------------------------------------------------------------------------
(* SpecCollect: one collect_metrics call of a new collector, over tasks,   *)
(* sizes and the answers of the system and of the random source            *)

BertBaseUncased ==
    <<"b", "e", "r", "t", "-", "b", "a", "s", "e", "-", "u", "n", "c", "a", "s", "e", "d">>

Gpt2 == <<"g", "p", "t", "2">>

DistilbertBaseUncased == <<"d", "i", "s", "t", "i", "l">> \o BertBaseUncased

\* The models of Main.py, under every task type of the tables and one that
\* they do not list, without and with a declared size.
Models ==
    {ModelInfo(name, task_type, size_mb) :
        name \in {BertBaseUncased, Gpt2, DistilbertBaseUncased},
        task_type \in {"text-generation", "text-classification", "question-answering",
                       "summarization", "translation", "fill-mask"},
        size_mb \in {None, Some(500), Some(1000), Some(1001)}}

Draws ==
    [now : {"t1"},
     rss : {None, Some(600 * 1024 * 1024)},
     cpu_percent : {None, Some(50)},
     has_gpu : BOOLEAN,
     gpu : {20},
     error_rate : {0, 5},
     random_value : {0, 65, 66, 70, 71, 75, 76, 80, 81, 92, 93, 94, 95, 96, 99}]

Collect ==
    /\ collection_history = <<>>
    /\ \E model \in Models, draws \in Draws : collect_metrics(model, draws)
    /\ UNCHANGED nonCollectorVars

NextCollect == Collect

SpecCollect == Init /\ [][NextCollect]_vars

----------------------------------------------------------------------------
(* SpecThreads: two track_performance calls made at the same time *)

\* Each thread tracks one sample of its own, below or above the memory limit.
ThreadSamples(t) ==
    {[s EXCEPT !.timestamp = IF t = 1 THEN "t1" ELSE "t2"] :
        s \in {x \in Samples : x.status = "healthy"}}

CallThread ==
    /\ \E t \in Threads :
           \E metrics \in ThreadSamples(t) : Call(t, metrics.model_name, metrics)
    /\ UNCHANGED <<aliasVars, collectorVars, managerVars>>

MembershipThread ==
    (\E t \in Threads : Membership(t)) /\ UNCHANGED <<aliasVars, collectorVars, managerVars>>

CreateThread ==
    (\E t \in Threads : Create(t)) /\ UNCHANGED <<aliasVars, collectorVars, managerVars>>

AppendThread ==
    (\E t \in Threads : AppendSample(t)) /\ UNCHANGED <<aliasVars, collectorVars, managerVars>>

CheckThread ==
    (\E t \in Threads : Check(t)) /\ UNCHANGED <<aliasVars, collectorVars, managerVars>>

ExtendThread ==
    (\E t \in Threads : Extend(t)) /\ UNCHANGED <<aliasVars, collectorVars, managerVars>>

ReturnThread ==
    (\E t \in Threads : Return(t)) /\ UNCHANGED <<aliasVars, collectorVars, managerVars>>

NextThreads ==
    \/ CallThread
    \/ MembershipThread
    \/ CreateThread
    \/ AppendThread
    \/ CheckThread
    \/ ExtendThread
    \/ ReturnThread

SpecThreads == Init /\ [][NextThreads]_vars

----------------------------------------------------------------------------
(* SpecMisnamed: summaries after calls whose sample carries another name *)

MaxMisnamedTracks == 2

\* The sample's own model_name is any name, equal to the argument or not.
TrackMisnamed ==
    /\ Len(calls) < MaxMisnamedTracks
    /\ UNCHANGED nonMonitorVars
    /\ \E model_name \in ModelNames, metrics \in AliasSamples :
           track_performance(model_name, metrics)

SummaryMisnamed ==
    /\ \E model_name \in ModelNames : get_model_summary(model_name)
    /\ UNCHANGED nonMonitorVars

NextMisnamed == TrackMisnamed \/ SummaryMisnamed

SpecMisnamed == Init /\ [][NextMisnamed]_vars

----------------------------------------------------------------------------
(* SpecPipeline: Main.main's loop, collect_metrics and then track_performance *)
(* of the collected sample under the model's name                            *)

MaxRounds == 1

\* Declared sizes for which the inference time is a whole number of
\* milliseconds, as the monitor's comparisons are made on whole numbers.
PipelineModels ==
    {ModelInfo(name, task_type, size_mb) :
        name \in {BertBaseUncased, Gpt2},
        task_type \in {"text-generation", "text-classification", "question-answering",
                       "summarization", "translation", "fill-mask"},
        size_mb \in {None, Some(400), Some(1200), Some(2000)}}

PipelineDraws ==
    [now : {"t1"},
     rss : {None, Some(600 * 1024 * 1024)},
     cpu_percent : {Some(50)},
     has_gpu : {FALSE},
     gpu : {20},
     error_rate : {0, 5},
     random_value : {0, 99}]

\* `metrics = metrics_collector.collect_metrics(model)`
CollectRound ==
    /\ Len(collection_history) = Len(calls)
    /\ Len(calls) < MaxRounds
    /\ \E model \in PipelineModels, draws \in PipelineDraws :
           collect_metrics(model, draws)
    /\ UNCHANGED nonCollectorVars

\* The collected sample as the monitor reads it.
CollectedSample ==
    [collected.metrics EXCEPT !.inference_time_ms = @.num]

\* `monitor.track_performance(model.name, metrics)`
TrackRound ==
    /\ Len(collection_history) = Len(calls) + 1
    /\ collected.metrics.inference_time_ms.den = 1
    /\ track_performance(collected.model.name, CollectedSample)
    /\ UNCHANGED nonMonitorVars

NextPipeline == CollectRound \/ TrackRound

SpecPipeline == Init /\ [][NextPipeline]_vars

----------------------------------------------------------------------------
(* SpecPartial: one sample evaluated against a table that lacks entries *)

\* Every table over any part of the keys, with limits 0 and 2.
PartialTables == UNION {[K -> {0, 2}] : K \in SUBSET ThresholdKeys}

\* Samples whose values lie below and above the limit 2.
PartialSamples ==
    [model_name : {"bert"},
     timestamp : {"t1"},
     memory_usage_mb : {1, 3},
     cpu_usage_percent : {1, 3},
     inference_time_ms : {1, 3},
     throughput_tokens_per_sec : {1, 3},
     model_size_mb : {548},
     gpu_usage_percent : {None},
     error_rate : {1, 3},
     status : {"healthy"}]

ReplacePartial ==
    /\ calls = <<>>
    /\ UNCHANGED nonMonitorVars
    /\ \E table \in PartialTables : ReplaceThresholds(table)

TrackPartial ==
    /\ calls = <<>>
    /\ UNCHANGED nonMonitorVars
    /\ \E metrics \in PartialSamples : track_performance("bert", metrics)

NextPartial == ReplacePartial \/ TrackPartial

SpecPartial == Init /\ [][NextPartial]_vars

----------------------------------------------------------------------------
(* SpecManager: the model manager under any sequence of calls *)

MaxManagerCalls == 4

ManagerNames == {"bert", "gpt2"}

\* Models as __post_init__ leaves them; several share a name and differ in
\* task type or library.
ManagedModels ==
    [name : ManagerNames,
     task_type : {"text-classification", "text-generation"},
     library : {"transformers", "timm"}]

AddModel ==
    /\ manager_calls < MaxManagerCalls
    /\ UNCHANGED nonManagerVars
    /\ \E model \in ManagedModels : add_model(model)

RemoveModel ==
    /\ manager_calls < MaxManagerCalls
    /\ UNCHANGED nonManagerVars
    /\ \E model_name \in ManagerNames : remove_model(model_name)

GetModel ==
    /\ UNCHANGED nonManagerVars
    /\ \E model_name \in ManagerNames : GetModelCall(model_name)

NextManager == AddModel \/ RemoveModel \/ GetModel

SpecManager == Init /\ [][NextManager]_vars

----------------------------------------------------------------------------
(* Helpers of the properties *)

\* The last call was track_performance; result holds what it returned.
Tracked == last_call.op = "track_performance"

\* The samples passed to track_performance under model_name, in call order.
SamplesTrackedAs(model_name) ==
    LET Under(c) == c.model_name = model_name
        made == SelectSeq(calls, Under)
    IN  [i \in 1..Len(made) |-> made[i].metrics]

IsPrefix(s, t) == Len(s) <= Len(t) /\ s = SubSeq(t, 1, Len(s))

\* The alert lists the calls returned, concatenated in call order.
RECURSIVE ReturnedAlerts(_)
ReturnedAlerts(n) ==
    IF n = 0 THEN <<>> ELSE ReturnedAlerts(n - 1) \o calls[n].alerts

----------------------------------------------------------------------------
(* C1 *)

HistoryIsCallLog ==
    /\ DOMAIN performance_history = {calls[i].model_name : i \in 1..Len(calls)}
    /\ \A n \in DOMAIN performance_history :
           performance_history[n] = SamplesTrackedAs(n)

HistoryOnlyGrows ==
    \A n \in DOMAIN performance_history :
        /\ n \in DOMAIN performance_history'
        /\ IsPrefix(performance_history[n], performance_history'[n])

\* C1: track is append-only.  The history of each model name holds exactly
\* the samples passed to track_performance under that name, one entry per
\* call, in call order; a name has a history exactly when it was tracked; and
\* no step removes, reorders or replaces an entry of any history.
C1_TrackAppendOnly == []HistoryIsCallLog /\ [][HistoryOnlyGrows]_vars

\* Three calls: two different samples under one name, in order, and the
\* first sample of the other name.
C1_Witness ==
    /\ Len(calls) = 3
    /\ DOMAIN performance_history = ModelNames
    /\ \E n \in ModelNames :
           /\ Len(performance_history[n]) = 2
           /\ performance_history[n][1] # performance_history[n][2]
           /\ performance_history[n][1].model_name # n

----------------------------------------------------------------------------
(* C2 .. C6: the threshold evaluator *)

MaxMetrics ==
    {"memory_usage_mb", "cpu_usage_percent", "inference_time_ms", "error_rate"}

\* The threshold key that limits each metric.
LimitKey ==
    [memory_usage_mb |-> "max_memory_mb",
     cpu_usage_percent |-> "max_cpu_percent",
     inference_time_ms |-> "max_inference_time_ms",
     error_rate |-> "max_error_rate",
     throughput_tokens_per_sec |-> "min_throughput_tokens_per_sec"]

\* The place of each metric in the order memory, cpu, inference time, error
\* rate, throughput.
Rank ==
    [memory_usage_mb |-> 1,
     cpu_usage_percent |-> 2,
     inference_time_ms |-> 3,
     error_rate |-> 4,
     throughput_tokens_per_sec |-> 5]

\* The returned alerts of the given type for the given metric.
Returned(type, metric) ==
    {i \in 1..Len(result.alerts) :
        result.alerts[i].type = type /\ result.alerts[i].metric = metric}

\* The evaluated sample's value of a metric, and the limit the table at the
\* time of the call holds for it.
Observed(metric) == last_call.metrics[metric]
Limit(metric) == last_call.thresholds[LimitKey[metric]]
Limited(metric) == LimitKey[metric] \in DOMAIN last_call.thresholds

\* C2: for every sample and every configured table, a threshold_exceeded
\* alert for memory, cpu, inference time or error rate is returned if and
\* only if the sample's value is strictly greater than the metric's threshold.
C2_AlertIffAboveThreshold ==
    Tracked =>
        \A m \in MaxMetrics :
            Limited(m) =>
                (Returned("threshold_exceeded", m) # {} <=> Observed(m) > Limit(m))

\* C3: every threshold_exceeded alert carries the observed value and the
\* threshold it was compared with, and has severity high if and only if the
\* value is strictly greater than 1.5 times the threshold and medium
\* otherwise; every alert's severity is medium or high.
C3_SeverityHighIffAbove150Percent ==
    Tracked =>
        \A i \in 1..Len(result.alerts) :
            LET a == result.alerts[i]
            IN  /\ a.severity \in {"medium", "high"}
                /\ a.type = "threshold_exceeded" =>
                       /\ a.metric \in MaxMetrics
                       /\ a.value = Observed(a.metric)
                       /\ a.threshold = Limit(a.metric)
                       /\ a.severity = "high" <=> 2 * a.value > 3 * a.threshold

\* One alert whose value is exactly 1.5 times its threshold (medium) beside
\* one above it (high).
C3_Witness ==
    /\ Tracked
    /\ \E i, j \in 1..Len(result.alerts) :
           /\ result.alerts[i].type = "threshold_exceeded"
           /\ 2 * result.alerts[i].value = 3 * result.alerts[i].threshold
           /\ result.alerts[i].severity = "medium"
           /\ result.alerts[j].type = "threshold_exceeded"
           /\ result.alerts[j].severity = "high"

\* A threshold_exceeded alert of the given severity is returned for the metric.
ReturnedWith(metric, severity) ==
    \E i \in Returned("threshold_exceeded", metric) :
        result.alerts[i].severity = severity

\* C4 as stated: for each of the four metrics and every positive threshold t,
\* the value t + 1 yields a medium alert and the value 1.5 * t + 1 a high one.
C4_BoundaryValuesAnyPositive ==
    Tracked =>
        \A m \in MaxMetrics :
            (Limited(m) /\ Limit(m) > 0) =>
                /\ Observed(m) = Limit(m) + 1 => ReturnedWith(m, "medium")
                /\ 2 * Observed(m) = 3 * Limit(m) + 2 => ReturnedWith(m, "high")

\* C4 as amended: for each of the four metrics, the value t + 1 yields a
\* medium alert for every threshold t >= 2, and the value 1.5 * t + 1 yields
\* a high alert for every positive threshold t.
C4_BoundaryValues ==
    Tracked =>
        \A m \in MaxMetrics :
            Limited(m) =>
                /\ (Limit(m) >= 2 /\ Observed(m) = Limit(m) + 1)
                       => ReturnedWith(m, "medium")
                /\ (Limit(m) > 0 /\ 2 * Observed(m) = 3 * Limit(m) + 2)
                       => ReturnedWith(m, "high")

\* One sample with a metric at t + 1 and another metric at 1.5 * t + 1.
C4_Witness ==
    /\ Tracked
    /\ \E m, n \in MaxMetrics :
           /\ Limit(m) >= 2 /\ Observed(m) = Limit(m) + 1
           /\ ReturnedWith(m, "medium")
           /\ Limit(n) > 0 /\ 2 * Observed(n) = 3 * Limit(n) + 2
           /\ ReturnedWith(n, "high")

\* C5: a throughput_low alert is returned if and only if the sample's
\* throughput is strictly less than min_throughput_tokens_per_sec, and it
\* always has severity medium.
C5_ThroughputLowIffBelowMinimum ==
    Tracked =>
        /\ Limited("throughput_tokens_per_sec") =>
               (Returned("throughput_low", "throughput_tokens_per_sec") # {}
                  <=> Observed("throughput_tokens_per_sec")
                        < Limit("throughput_tokens_per_sec"))
        /\ \A i \in 1..Len(result.alerts) :
               result.alerts[i].type = "throughput_low" =>
                   /\ result.alerts[i].metric = "throughput_tokens_per_sec"
                   /\ result.alerts[i].severity = "medium"

\* A throughput of 0 against a minimum of 2: far below, and still medium.
C5_Witness ==
    /\ Tracked
    /\ Observed("throughput_tokens_per_sec") = 0
    /\ Limit("throughput_tokens_per_sec") = 2
    /\ \E i \in Returned("throughput_low", "throughput_tokens_per_sec") :
           result.alerts[i].severity = "medium"

\* The sample violates the limit of the metric.
Violated(metric) ==
    /\ Limited(metric)
    /\ IF metric \in MaxMetrics
       THEN Observed(metric) > Limit(metric)
       ELSE Observed(metric) < Limit(metric)

\* C6: the alerts returned for one sample are ordered memory, cpu, inference
\* time, error rate, then throughput; each metric appears at most once, and
\* only metrics the sample violates appear.
C6_AlertOrder ==
    Tracked =>
        /\ \A i \in 1..Len(result.alerts) :
               /\ result.alerts[i].metric \in DOMAIN Rank
               /\ Violated(result.alerts[i].metric)
        /\ \A i, j \in 1..Len(result.alerts) :
               i < j => Rank[result.alerts[i].metric] < Rank[result.alerts[j].metric]

\* A sample that violates all five limits.
C6_Witness ==
    /\ Tracked
    /\ Len(result.alerts) = 5
    /\ \A m \in DOMAIN Rank : Violated(m)

----------------------------------------------------------------------------
(* C7 .. C9: track_performance *)

AlertLogIsReturnedAlerts == alerts = ReturnedAlerts(Len(calls))

AlertLogOnlyGrows == IsPrefix(alerts, alerts')

\* C7: the global alert log is append-only and never deduplicated.  It is the
\* concatenation, in call order, of the alert lists the track_performance
\* calls returned, and no step removes or changes an alert already logged.
C7_AlertLogAppendOnly == []AlertLogIsReturnedAlerts /\ [][AlertLogOnlyGrows]_vars

\* The same violating sample tracked three times under one table: the log
\* holds its alert three times.
C7_Witness ==
    /\ Len(calls) = 3
    /\ calls[1].alerts # <<>>
    /\ \A i \in 2..3 :
           /\ calls[i].metrics = calls[1].metrics
           /\ calls[i].thresholds = calls[1].thresholds
    /\ Len(alerts) = 3 * Len(calls[1].alerts)
    /\ \A i \in 1..Len(alerts) : alerts[i] = alerts[1]

\* The alerts the last call added to the log.
AddedByLastCall == SubSeq(alerts, last_call.alerts_before + 1, Len(alerts))

\* C8: the result of track_performance(model_name, sample) carries the given
\* model_name, the sample's ten fields under their keys, exactly the alerts
\* this call added to the log, the trend record of model_name, and the
\* sample's own status.
C8_TrackingResult ==
    Tracked =>
        /\ DOMAIN result =
               {"model_name", "current_metrics", "alerts", "trends", "status"}
        /\ result.model_name = last_call.model_name
        /\ DOMAIN result.current_metrics = MetricsKeys
        /\ \A k \in MetricsKeys :
               result.current_metrics[k] = last_call.metrics[k]
        /\ result.alerts = AddedByLastCall
        /\ \A i \in 1..Len(result.alerts) :
               /\ result.alerts[i].model = last_call.metrics.model_name
               /\ result.alerts[i].timestamp = last_call.metrics.timestamp
        /\ result.trends =
               _calculate_trends(performance_history, last_call.model_name)
        /\ result.status = last_call.metrics.status

\* A healthy sample that raises an alert and a trend, tracked after a
\* degraded one that had raised an alert too, under a name other than its own.
C8_Witness ==
    /\ Tracked
    /\ result.status = "healthy"
    /\ result.alerts # <<>>
    /\ Len(alerts) > Len(result.alerts)
    /\ last_call.metrics.model_name # last_call.model_name
    /\ Len(performance_history[last_call.model_name]) = 2
    /\ performance_history[last_call.model_name][1].status = "degraded"
    /\ result.trends.memory = "increasing"

\* The number of track_performance calls made under the last call's name.
TimesTracked == Len(SamplesTrackedAs(last_call.model_name))

\* C9: the first track_performance call for a model name returns exactly
\* {trend: insufficient_data}, whatever other models hold; every later call
\* for that name returns exactly the keys memory, cpu and performance.
C9_TrendRecordShape ==
    Tracked =>
        IF TimesTracked = 1
        THEN result.trends = [trend |-> "insufficient_data"]
        ELSE DOMAIN result.trends = {"memory", "cpu", "performance"}

\* The first call for a name made when the other name holds two samples.
C9_Witness ==
    /\ Tracked
    /\ TimesTracked = 1
    /\ \E n \in ModelNames \ {last_call.model_name} :
           /\ n \in DOMAIN performance_history
           /\ Len(performance_history[n]) = 2
    /\ result.trends = [trend |-> "insufficient_data"]

----------------------------------------------------------------------------
(* C10: memory and cpu trends *)

\* Newest minus previous value of a field, over the samples tracked under the
\* last call's name.
Delta(field) ==
    LET h == SamplesTrackedAs(last_call.model_name)
    IN  h[Len(h)][field] - h[Len(h) - 1][field]

\* C10: with at least two samples, the memory trend is increasing if newest
\* minus previous memory_usage_mb is strictly greater than 10, decreasing if
\* strictly less than -10 and stable otherwise; the cpu trend follows the
\* same rule on cpu_usage_percent with bound 5.
C10_MemoryAndCpuTrend ==
    (Tracked /\ TimesTracked >= 2) =>
        /\ Delta("memory_usage_mb") > 10 => result.trends.memory = "increasing"
        /\ Delta("memory_usage_mb") < -10 => result.trends.memory = "decreasing"
        /\ Delta("memory_usage_mb") \in -10..10 => result.trends.memory = "stable"
        /\ Delta("cpu_usage_percent") > 5 => result.trends.cpu = "increasing"
        /\ Delta("cpu_usage_percent") < -5 => result.trends.cpu = "decreasing"
        /\ Delta("cpu_usage_percent") \in -5..5 => result.trends.cpu = "stable"

\* Memory up by exactly 10 and cpu down by exactly 5: both stable.
C10_Witness ==
    /\ Tracked
    /\ TimesTracked >= 2
    /\ Delta("memory_usage_mb") = 10
    /\ Delta("cpu_usage_percent") = -5
    /\ result.trends.memory = "stable"
    /\ result.trends.cpu = "stable"

----------------------------------------------------------------------------
(* C11: performance trend *)

\* C11: with at least two samples, the performance trend is degrading if
\* newest minus previous inference_time_ms is strictly greater than 50,
\* improving if strictly less than -50 and stable otherwise; a rise is never
\* reported as improving and a fall never as degrading.
C11_PerformanceTrend ==
    (Tracked /\ TimesTracked >= 2) =>
        /\ Delta("inference_time_ms") > 50 => result.trends.performance = "degrading"
        /\ Delta("inference_time_ms") < -50 => result.trends.performance = "improving"
        /\ Delta("inference_time_ms") \in -50..50
               => result.trends.performance = "stable"
        /\ Delta("inference_time_ms") > 0 => result.trends.performance # "improving"
        /\ Delta("inference_time_ms") < 0 => result.trends.performance # "degrading"

\* Inference time up by 51: degrading, on the second sample of a name.
C11_Witness ==
    /\ Tracked
    /\ TimesTracked >= 2
    /\ Delta("inference_time_ms") = 51
    /\ result.trends.performance = "degrading"

----------------------------------------------------------------------------
(* C12 .. C14: get_model_summary and get_system_overview *)

Summarised == last_call.op = "get_model_summary"
Overviewed == last_call.op = "get_system_overview"

\* The names track_performance was called with.
TrackedNames == {calls[i].model_name : i \in 1..Len(calls)}

\* A step that is a get_model_summary call.
SummaryStep ==
    /\ last_call'.op = "get_model_summary"
    /\ last_call' # last_call \/ result' # result

SummaryOfUntrackedIsError ==
    (Summarised /\ TimesTracked = 0) =>
        /\ result = [error |-> "No performance data available"]
        /\ last_call.model_name \notin DOMAIN performance_history
        /\ Cardinality(DOMAIN performance_history) = Cardinality(TrackedNames)

SummaryChangesNothing ==
    SummaryStep => UNCHANGED <<performance_history, alerts, thresholds>>

\* C12: get_model_summary for a name that was never tracked returns the
\* no-data error instead of a summary and leaves the tracker unchanged: no
\* history is created for the name, so the number of histories the overview
\* counts is still the number of tracked names.
C12_SummaryOfUntracked ==
    []SummaryOfUntrackedIsError /\ [][SummaryChangesNothing]_vars

\* The summary of a name never tracked, asked when other names hold samples.
C12_Witness ==
    /\ Summarised
    /\ TimesTracked = 0
    /\ Len(calls) = 3
    /\ "error" \in DOMAIN result

RECURSIVE Total(_, _)
Total(samples, field) ==
    IF samples = <<>> THEN 0
    ELSE Head(samples)[field] + Total(Tail(samples), field)

AveragedFields ==
    {"memory_usage_mb", "cpu_usage_percent", "inference_time_ms",
     "throughput_tokens_per_sec"}

\* C13: for a tracked model, get_model_summary returns the most recently
\* tracked sample as latest_metrics, the number of track calls for the name
\* as metrics_count, and for memory, cpu, inference time and throughput the
\* arithmetic mean over all samples tracked under the name; after exactly
\* one call the averages are that sample's values.
C13_SummaryOfTracked ==
    (Summarised /\ TimesTracked >= 1) =>
        LET h == SamplesTrackedAs(last_call.model_name)
        IN  /\ result.model_name = last_call.model_name
            /\ DOMAIN result.latest_metrics = MetricsKeys
            /\ \A k \in MetricsKeys : result.latest_metrics[k] = h[Len(h)][k]
            /\ result.metrics_count = Len(h)
            /\ DOMAIN result.averages = AveragedFields
            /\ \A f \in AveragedFields :
                   /\ result.averages[f].den > 0
                   /\ result.averages[f].num * Len(h)
                          = Total(h, f) * result.averages[f].den
                   /\ Len(h) = 1 =>
                          result.averages[f] = [num |-> h[1][f], den |-> 1]

\* The summary of a name tracked twice, with 2048 and 3073 MB: the mean is
\* 5121/2.
C13_Witness ==
    /\ Summarised
    /\ TimesTracked = 2
    /\ result.metrics_count = 2
    /\ result.averages.memory_usage_mb = [num |-> 5121, den |-> 2]
    /\ result.latest_metrics.memory_usage_mb = 3073

\* The status of the last sample tracked under a name.
LastStatus(model_name) ==
    LET h == SamplesTrackedAs(model_name) IN h[Len(h)].status

\* The count the returned histogram holds for a status.
Histogram(status) ==
    IF status \in DOMAIN result.status_distribution
    THEN result.status_distribution[status]
    ELSE 0

\* C14: get_system_overview reports the number of distinct names tracked,
\* the number of track calls, the length of the alert log, and a status
\* histogram that counts each tracked model once, under the status of its
\* last sample, so that its counts sum to the number of models.
C14_Overview ==
    Overviewed =>
        /\ result.total_models_monitored = Cardinality(TrackedNames)
        /\ result.total_metrics_collected = Len(calls)
        /\ result.total_alerts = Len(ReturnedAlerts(Len(calls)))
        /\ DOMAIN result.status_distribution \subseteq {"healthy", "warning", "degraded"}
        /\ \A s \in {"healthy", "warning", "degraded"} :
               Histogram(s) = Cardinality({n \in TrackedNames : LastStatus(n) = s})
        /\ Histogram("healthy") + Histogram("warning") + Histogram("degraded")
               = result.total_models_monitored

\* Two models, one tracked twice with its status changing from degraded to
\* healthy, the other degraded, with alerts logged.
C14_Witness ==
    /\ Overviewed
    /\ Len(calls) = 3
    /\ result.total_models_monitored = 2
    /\ result.total_alerts > 0
    /\ result.status_distribution = [healthy |-> 1, degraded |-> 1]
    /\ \E n \in TrackedNames :
           /\ Len(performance_history[n]) = 2
           /\ performance_history[n][1].status = "degraded"
           /\ performance_history[n][2].status = "healthy"

----------------------------------------------------------------------------
(* C15: returned values and passed samples against the tracker's containers *)

\* The tracker's histories, alert log and threshold table, read through its
\* references.
TrackerState(h, refs) ==
    [performance_history |->
        [n \in DOMAIN refs.performance_history |-> Items(h, refs.performance_history[n])],
     alerts |-> Items(h, refs.alerts),
     thresholds |-> h[refs.thresholds].value]

\* C15: a caller's write to a value that track_performance or
\* get_system_overview returned, or to the sample object after it was
\* tracked, never changes the tracker's histories, alert log or threshold
\* table.
C15_CallerWritesLeaveTracker ==
    [][CallerWrites => TrackerState(heap', self_refs') = TrackerState(heap, self_refs)]_vars

----------------------------------------------------------------------------
(* C16: the table in force *)

\* The alerts call i returned for a metric.
ReturnedBy(i, metric) ==
    {j \in 1..Len(calls[i].alerts) : calls[i].alerts[j].metric = metric}

\* Every call was evaluated against the table in force when it was made.
EvaluatedAgainstTableInForce ==
    \A i \in 1..Len(calls) :
        /\ \A j \in 1..Len(calls[i].alerts) :
               calls[i].alerts[j].threshold
                   = calls[i].thresholds[LimitKey[calls[i].alerts[j].metric]]
        /\ \A m \in MaxMetrics :
               calls[i].thresholds[LimitKey[m]] # 0 =>
                   (ReturnedBy(i, m) # {}
                      <=> calls[i].metrics[m] > calls[i].thresholds[LimitKey[m]])

ReplacementKeepsLog == thresholds' # thresholds => alerts' = alerts

\* C16: every track call is evaluated against the table that is current when
\* it is made, also after the table was replaced; the log stays the
\* concatenation of what the calls returned, so an alert logged before a
\* replacement keeps the threshold recorded at its creation.
C16_TableInForce ==
    /\ [](EvaluatedAgainstTableInForce /\ AlertLogIsReturnedAlerts)
    /\ [][ReplacementKeepsLog]_vars

\* 2048 MB tracked under the limit 2047 (alert) and, after the table was
\* replaced by the default one, again under the limit 2048 (no alert); the
\* logged alert still shows 2047.
C16_Witness ==
    /\ Len(calls) >= 2
    /\ calls[1].thresholds = StrictThresholds
    /\ calls[1].metrics.memory_usage_mb = 2048
    /\ calls[2].thresholds = DefaultThresholds
    /\ calls[2].metrics.memory_usage_mb = 2048
    /\ calls[2].alerts = <<>>
    /\ thresholds = DefaultThresholds
    /\ Len(alerts) = 1
    /\ alerts[1].threshold = 2047

----------------------------------------------------------------------------
(* C17 .. C20: the collector's size, throughput and inference time *)

\* collect_metrics has been called; collected holds its model and its sample.
Collected == collected # None

\* The patterns of the size table that the lower-cased name contains.
Matching(name) ==
    {i \in 1..Len(size_estimates) : Contains(size_estimates[i].pattern, Lower(name))}

\* C17: a model with a declared size is reported with exactly that size; a
\* model without one is reported with the size of a table pattern that its
\* lower-cased name contains, or with 300 when it contains none.
C17_ReportedSize ==
    Collected =>
        LET model == collected.model
            reported == collected.metrics.model_size_mb
        IN  IF model.size_mb # None
            THEN reported = model.size_mb[1]
            ELSE IF Matching(model.name) = {}
                 THEN reported = 300
                 ELSE \E i \in Matching(model.name) : reported = size_estimates[i].size

C17_Witness ==
    /\ Collected
    /\ collected.model.size_mb = None
    /\ collected.model.name = <<"r", "o", "b", "e", "r", "t", "a", "-", "b", "a", "s", "e">>
    /\ collected.metrics.model_size_mb = 498

\* C18: when the name of a model without declared size contains several
\* patterns of the size table, the estimate is the size of the longest one.
C18_LongestPatternDecides ==
    (Collected /\ collected.model.size_mb = None) =>
        \A i \in Matching(collected.model.name) :
            (\A j \in Matching(collected.model.name) \ {i} :
                Len(size_estimates[j].pattern) < Len(size_estimates[i].pattern))
            => collected.metrics.model_size_mb = size_estimates[i].size

\* C19: the reported throughput is the table value of the model's task type,
\* 100 for a task type the table does not list, whatever the name and size.
C19_ThroughputByTask ==
    Collected =>
        collected.metrics.throughput_tokens_per_sec =
            CASE collected.model.task_type = "text-generation" -> 80
              [] collected.model.task_type = "text-classification" -> 200
              [] collected.model.task_type = "question-answering" -> 120
              [] collected.model.task_type = "summarization" -> 60
              [] collected.model.task_type = "translation" -> 90
              [] OTHER -> 100

C19_Witness ==
    /\ Collected
    /\ collected.model.task_type = "fill-mask"
    /\ collected.model.size_mb = Some(1001)
    /\ collected.metrics.throughput_tokens_per_sec = 100

\* The task multiplier in tenths.
MultiplierTenths(task_type) ==
    CASE task_type = "text-generation" -> 20
      [] task_type = "text-classification" -> 10
      [] task_type = "question-answering" -> 15
      [] task_type = "summarization" -> 18
      [] task_type = "translation" -> 16
      [] OTHER -> 10

\* C20: with a declared size s the reported inference time is
\* 50 * (1 + s/1000 * 0.5) * multiplier, that is (2000 + s) * tenths / 400;
\* without one it is 50 * multiplier, that is 5 * tenths, even when a size
\* is estimated from the name: "gpt2" with task text-generation and no
\* declared size yields exactly 100.
C20_InferenceTime ==
    Collected =>
        LET model == collected.model
            time == collected.metrics.inference_time_ms
            tenths == MultiplierTenths(model.task_type)
        IN  /\ model.size_mb # None =>
                   400 * time.num = (2000 + model.size_mb[1]) * tenths * time.den
            /\ model.size_mb = None => time.num = 5 * tenths * time.den
            /\ (model.name = Gpt2 /\ model.task_type = "text-generation"
                    /\ model.size_mb = None)
               => time = [num |-> 100, den |-> 1]

C20_Witness ==
    /\ Collected
    /\ collected.model = [name |-> Gpt2, task_type |-> "text-generation", size_mb |-> None]
    /\ collected.metrics.model_size_mb = 548
    /\ collected.metrics.inference_time_ms = [num |-> 100, den |-> 1]

----------------------------------------------------------------------------
(* C21: the status weights and the selection *)

\* The weights in hundredths as the shifts give them: 80/15/5, moved by
\* -10/+8/+2 for a declared size above 1000 and by -5/+4/+1 for a
\* text-generation or summarization task.
ShiftedWeights(model) ==
    LET large == IF model.size_mb # None /\ model.size_mb[1] > 1000 THEN 1 ELSE 0
        complex == IF model.task_type \in {"text-generation", "summarization"}
                   THEN 1 ELSE 0
    IN  <<80 - 10 * large - 5 * complex, 15 + 8 * large + 4 * complex,
          5 + 2 * large + complex>>

\* C21: the weights are the base weights moved by the size shift and by the
\* task shift, both when both apply; they are positive and sum to 1 (100
\* hundredths); every draw selects exactly one status: healthy up to the
\* first weight, warning up to the sum of the first two, degraded above.
C21_StatusSelection ==
    Collected =>
        LET model == collected.model
            weights == StatusWeights(model)
            shifted == ShiftedWeights(model)
            r == collected.draws.random_value
            status == collected.metrics.status
        IN  /\ weights = shifted
            /\ \A i \in 1..3 : weights[i] > 0
            /\ weights[1] + weights[2] + weights[3] = 100
            /\ status \in {"healthy", "warning", "degraded"}
            /\ status = "healthy" <=> r <= shifted[1]
            /\ status = "warning" <=> (shifted[1] < r /\ r <= shifted[1] + shifted[2])
            /\ status = "degraded" <=> shifted[1] + shifted[2] < r

C21_Witness ==
    /\ Collected
    /\ collected.model.size_mb = Some(1001)
    /\ collected.model.task_type = "text-generation"
    /\ collected.draws.random_value = 66
    /\ collected.metrics.status = "warning"

----------------------------------------------------------------------------
(* C22: failures of the introspection *)

\* C22: collect_metrics raises nothing and returns a sample with every field,
\* which it also appends to its history; a failed memory introspection gives
\* memory_usage_mb = 512 and a failed cpu introspection gives
\* cpu_usage_percent = 25, each whatever the other did, and an introspection
\* that answers is reported as it answered.
C22_IntrospectionFailureAbsorbed ==
    Collected =>
        /\ ~collected.raised
        /\ DOMAIN collected.metrics = MetricsKeys
        /\ collection_history # <<>>
        /\ collection_history[Len(collection_history)] = collected.metrics
        /\ collected.draws.rss = None => collected.metrics.memory_usage_mb = 512
        /\ collected.draws.rss # None =>
               collected.metrics.memory_usage_mb * 1024 * 1024 = collected.draws.rss[1]
        /\ collected.draws.cpu_percent = None =>
               collected.metrics.cpu_usage_percent = 25
        /\ collected.draws.cpu_percent # None =>
               collected.metrics.cpu_usage_percent = collected.draws.cpu_percent[1]

C22_Witness ==
    /\ Collected
    /\ collected.draws.rss = None
    /\ collected.draws.cpu_percent # None
    /\ collected.metrics.memory_usage_mb = 512
    /\ collected.metrics.cpu_usage_percent = 50

----------------------------------------------------------------------------
(* C23: the samples the trend compares *)

\* The trend record of two samples.
TrendBetween(previous, recent) ==
    [memory |-> MemoryTrend(recent.memory_usage_mb - previous.memory_usage_mb),
     cpu |-> CpuTrend(recent.cpu_usage_percent - previous.cpu_usage_percent),
     performance |-> PerformanceTrend(recent.inference_time_ms
                                      - previous.inference_time_ms)]

\* C23: from the second call for a model name on, the trend returned is the
\* trend between the sample just tracked and the one tracked immediately
\* before it under the same name; older samples of that name and samples
\* tracked under other names in between have no part in it.
C23_TrendOfLastTwo ==
    (Tracked /\ TimesTracked >= 2) =>
        LET h == SamplesTrackedAs(last_call.model_name)
        IN  /\ h[Len(h)] = last_call.metrics
            /\ result.trends = TrendBetween(h[Len(h) - 1], h[Len(h)])

\* Two samples with the same memory tracked under one name, with a sample of
\* another memory tracked under the other name in between.
C23_Witness ==
    /\ Tracked
    /\ Len(calls) = 3
    /\ calls[1].model_name = calls[3].model_name
    /\ calls[2].model_name # calls[3].model_name
    /\ calls[1].metrics.memory_usage_mb = 2048
    /\ calls[2].metrics.memory_usage_mb = 3073
    /\ calls[3].metrics.memory_usage_mb = 2048
    /\ result.trends.memory = "stable"

----------------------------------------------------------------------------
(* C24: two track_performance calls at the same time *)

\* Thread t has appended its sample and not yet extended the alert log.
BetweenAppendAndExtend(t) == threads[t].pc \in {"check", "extend"}

\* None of the alerts of thread t's sample is in the alert log.
AlertsNotLogged(t) ==
    \A i \in 1..Len(alerts) : alerts[i].timestamp # threads[t].metrics.timestamp

\* A step in which thread t appends its sample.
Appends(t) == threads[t].pc = "append" /\ threads'[t].pc = "check"

\* Right after its append, the sample of thread t is the newest of its
\* model's history, the alert log is what it was, and a summary taken now
\* counts the sample while it counts none of its alerts.
AppendedNotLogged(t) ==
    LET model_name == threads[t].model_name
        history == performance_history'[model_name]
        summary == Summary(model_name, history, alerts')
    IN  /\ history[Len(history)] = threads[t].metrics
        /\ alerts' = alerts
        /\ summary.metrics_count = Len(history)
        /\ summary.alerts_count = Len(ModelAlerts(alerts, model_name))

\* C24: track_performance is not atomic: the append of the sample is a step
\* of its own that leaves the alert log alone, and as long as the call has
\* not reached its extend none of its alerts is in the log, whatever the
\* other call does in between.
C24_TrackNotAtomic ==
    /\ [](\A t \in Threads : BetweenAppendAndExtend(t) => AlertsNotLogged(t))
    /\ [][\A t \in Threads : Appends(t) => AppendedNotLogged(t)]_vars

\* Both calls have returned and both samples raised an alert; the thread that
\* appended its sample first has its alert second in the log.
C24_Witness ==
    /\ \A t \in Threads : threads[t].pc = "done"
    /\ Len(alerts) = 2
    /\ alerts[1].timestamp = threads[appended[2]].metrics.timestamp
    /\ alerts[2].timestamp = threads[appended[1]].metrics.timestamp
    /\ appended[1] # appended[2]

----------------------------------------------------------------------------
(* C25: the alert count of a summary *)

\* The number of alerts returned by the first n track_performance calls that
\* were made under model_name.
RECURSIVE AlertsReturnedUnder(_, _)
AlertsReturnedUnder(model_name, n) ==
    IF n = 0 THEN 0
    ELSE AlertsReturnedUnder(model_name, n - 1)
         + (IF calls[n].model_name = model_name THEN Len(calls[n].alerts) ELSE 0)

\* C25: the alerts_count of the summary of a tracked name is the number of
\* alerts that the track_performance calls made under that name returned,
\* also when a sample's own model_name is not the name it was tracked under.
C25_AlertsCountOfSummary ==
    (Summarised /\ TimesTracked >= 1) =>
        result.alerts_count = AlertsReturnedUnder(last_call.model_name, Len(calls))

----------------------------------------------------------------------------
(* C26: what each call changes *)

\* A step that is a track_performance call.
TrackStep == Len(calls') = Len(calls) + 1

\* A step that is a get_system_overview call.
OverviewStep ==
    /\ last_call'.op = "get_system_overview"
    /\ last_call' # last_call \/ result' # result

\* track_performance(m, s) keeps every history but that of m, and the
\* threshold table.
TrackChangesOneHistory ==
    TrackStep =>
        LET m == last_call'.model_name
        IN  /\ DOMAIN performance_history' = DOMAIN performance_history \cup {m}
            /\ \A n \in DOMAIN performance_history \ {m} :
                   performance_history'[n] = performance_history[n]
            /\ Len(performance_history'[m]) = Len(HistoryOf(performance_history, m)) + 1
            /\ IsPrefix(alerts, alerts')
            /\ thresholds' = thresholds

\* get_model_summary and get_system_overview change no history, no alert and
\* no threshold.
QueriesChangeNothing ==
    (SummaryStep \/ OverviewStep) =>
        /\ performance_history' = performance_history
        /\ alerts' = alerts
        /\ thresholds' = thresholds

\* C26: track_performance(m, s) changes only the history of m and the alert
\* log; get_model_summary and get_system_overview are read-only, whether or
\* not the queried model was tracked.
C26_Frame == [][TrackChangesOneHistory /\ QueriesChangeNothing]_vars

\* A call for one name made when another name holds two samples, which
\* raised an alert.
C26_Witness ==
    /\ Tracked
    /\ Len(calls) = 3
    /\ Len(result.alerts) = 1
    /\ Len(performance_history[last_call.model_name]) = 1
    /\ \E n \in DOMAIN performance_history :
           n # last_call.model_name /\ Len(performance_history[n]) = 2

----------------------------------------------------------------------------
(* C27: collected samples against the default thresholds *)

\* C27: under the default threshold table a collected sample has a throughput
\* of at least 60 and an error rate of at most 5, and tracking it returns and
\* logs no throughput_low alert and no error_rate alert.
C27_NoThroughputNorErrorAlert ==
    /\ Collected =>
           /\ collected.metrics.throughput_tokens_per_sec >= 60
           /\ collected.metrics.error_rate <= 5
    /\ (Tracked /\ Len(calls) = Len(collection_history)) =>
           /\ thresholds = DefaultThresholds
           /\ last_call.metrics.throughput_tokens_per_sec
                  = collected.metrics.throughput_tokens_per_sec
           /\ last_call.metrics.error_rate = collected.metrics.error_rate
           /\ \A i \in 1..Len(result.alerts) :
                  /\ result.alerts[i].type # "throughput_low"
                  /\ result.alerts[i].metric # "error_rate"
    /\ \A i \in 1..Len(alerts) :
           alerts[i].type # "throughput_low" /\ alerts[i].metric # "error_rate"

\* The slowest task with the highest error rate, collected and tracked.
C27_Witness ==
    /\ Tracked
    /\ collected.model.task_type = "summarization"
    /\ last_call.metrics.throughput_tokens_per_sec = 60
    /\ last_call.metrics.error_rate = 5
    /\ performance_history[collected.model.name] = <<last_call.metrics>>
    /\ result.alerts = <<>>

----------------------------------------------------------------------------
(* C28: tables that lack an entry or hold 0 *)

\* The table of the call has no entry for the metric's limit, or holds 0.
Unlimited(metric) == ~Limited(metric) \/ Limit(metric) = 0

\* The returned alerts for a metric, of any type.
ReturnedFor(metric) ==
    {i \in 1..Len(result.alerts) : result.alerts[i].metric = metric}

\* C28: when the table has no entry for a metric's limit, or holds 0 for it,
\* track_performance returns its result with no alert for that metric,
\* whatever the sample's value; a metric whose limit the table does hold is
\* checked as ever.
C28_MissingOrZeroLimit ==
    Tracked =>
        /\ DOMAIN result = {"model_name", "current_metrics", "alerts", "trends", "status"}
        /\ \A m \in DOMAIN LimitKey :
               Unlimited(m) => ReturnedFor(m) = {}
        /\ \A m \in MaxMetrics :
               ~Unlimited(m) =>
                   (Returned("threshold_exceeded", m) # {} <=> Observed(m) > Limit(m))
        /\ ~Unlimited("throughput_tokens_per_sec") =>
               (Returned("throughput_low", "throughput_tokens_per_sec") # {}
                    <=> Observed("throughput_tokens_per_sec")
                            < Limit("throughput_tokens_per_sec"))

\* No entry for memory, 0 for cpu, 2 for the error rate, and a sample with 3
\* everywhere: the error rate alone is reported.
C28_Witness ==
    /\ Tracked
    /\ DOMAIN last_call.thresholds = {"max_cpu_percent", "max_error_rate"}
    /\ last_call.thresholds["max_cpu_percent"] = 0
    /\ last_call.thresholds["max_error_rate"] = 2
    /\ Observed("memory_usage_mb") = 3
    /\ Observed("cpu_usage_percent") = 3
    /\ Observed("error_rate") = 3
    /\ Len(result.alerts) = 1
    /\ result.alerts[1].metric = "error_rate"

----------------------------------------------------------------------------
(* C29, C30: the model manager *)

\* The most recent call is remove_model and returned the value.
Removed(value) ==
    /\ manager_call.op = "remove_model"
    /\ manager_call.returned = value

\* After remove_model(name) has returned True, get_model(name) is None.
RemovedNameIsGone ==
    Removed(TRUE) => get_model(models, manager_call.model_name) = None

\* remove_model(name) returns False exactly when no model has the name, and
\* then changes nothing.
RemoveOfAbsentName ==
    (/\ manager_calls' = manager_calls + 1
     /\ manager_call'.op = "remove_model")
        => /\ manager_call'.returned = FALSE
                  <=> Named(models, manager_call'.model_name) = {}
           /\ manager_call'.returned = FALSE
                  => models' = models /\ model_groups' = model_groups

RemoveOfAbsentNameAlways == [][RemoveOfAbsentName]_vars

\* C29: after remove_model(name) returns True, get_model(name) returns None,
\* also when several models sharing the name were added; remove_model(name)
\* returns False and changes nothing when no model has the name.
C29_RemoveModelByName == []RemovedNameIsGone /\ RemoveOfAbsentNameAlways

\* The ids a group lists.
Listed(group) == {model_groups[group][i] : i \in 1..Len(model_groups[group])}

\* Every model id listed in a group is the id of a held model.
ListedAreHeld ==
    \A group \in DOMAIN model_groups : Listed(group) \subseteq ModelIds(models)

NoGroupEmpty ==
    \A group \in DOMAIN model_groups : model_groups[group] # <<>>

\* Every held model is listed in the group of its task type and in the group
\* of its library.
HeldAreListed ==
    \A i \in 1..Len(models) :
        /\ "task_" \o models[i].model.task_type \in DOMAIN model_groups
        /\ models[i].id \in Listed("task_" \o models[i].model.task_type)
        /\ "library_" \o models[i].model.library \in DOMAIN model_groups
        /\ models[i].id \in Listed("library_" \o models[i].model.library)

\* C30: every model id listed in a group of model_groups is the id of a held
\* model, no group is empty, and every held model is listed in the group of
\* its task type and in the group of its library.
C30_GroupsOfHeldModels == ListedAreHeld /\ NoGroupEmpty /\ HeldAreListed

====
